---- MODULE Spec2Model ----
(***************************************************************************)
(* omega-cache: a typed cache facade (Engine) over one CacheStorage        *)
(* backend: NoopEngine, SledEngine (embedded, timestamped items, lazy      *)
(* expiry on read) or RedisEngine (networked, pooled connections, native   *)
(* expiring keys, "<column>:<key>" physical keys).                         *)
(*                                                                         *)
(* Bytes are sequences of one-character strings.  Wall-clock time is in    *)
(* whole seconds since the epoch, the unit both backends work in           *)
(* (as_secs() in sled_engine.rs, SetExpiry::EX in redis_engine.rs).        *)
(***************************************************************************)
EXTENDS Integers, Sequences, FiniteSets, TLC

\* ------------------------------------------------------------------ bounds

\* Clock readings are 0..MaxNow.
MaxNow == 2

\* At most MaxCalls storage calls are made in one run.
MaxCalls == 3

\* ------------------------------------------------------------------ inputs

\* Column names: a plain one, one that extends it with the separator, and
\* one that is a metacharacter of the remote store's MATCH patterns.
ColumnNames == { <<"a">>, <<"a", ":">>, <<"\\">> }

\* get_ttl_in_seconds() is an i32: negative, zero and positive values.
Ttls == { -1, 0, 1 }

\* The column definitions the callers declare (name, TTL).  Every name is
\* declared with a positive TTL; the first name also with a zero and a
\* negative one.
Columns ==
  { c \in [name : ColumnNames, ttl : Ttls] : c.ttl = 1 \/ c.name = <<"a">> }

Keys == { <<"k">> }

\* Payload bytes handed to the storage layer; the empty payload is one.
Payloads == { <<>>, <<"x">> }

NoColumn == [name |-> <<>>, ttl |-> 0]

\* ------------------------------------------------------------------ results

\* Result<(), CacheError> and Result<Option<Vec<u8>>, CacheError>, plus the
\* abort of the calling thread by a panic.
ROk == [kind |-> "Ok", err |-> "", bytes |-> <<>>]

RNone == [kind |-> "None", err |-> "", bytes |-> <<>>]

RSome(b) == [kind |-> "Some", err |-> "", bytes |-> b]

\* CacheError::Put / Get / Encode / Decode / Engine
RErr(e) == [kind |-> "Err", err |-> e, bytes |-> <<>>]

RPanic == [kind |-> "Panic", err |-> "", bytes |-> <<>>]

\* ------------------------------------------------------------------ maps

EmptyMap == [x \in {} |-> x]

MapPut(m, k, v) == [x \in (DOMAIN m) \cup {k} |-> IF x = k THEN v ELSE m[x]]

MapDel(m, ks) == [x \in (DOMAIN m) \ ks |-> m[x]]

\* ------------------------------------------------------------------ sled

\* struct Item { time: u64, data: T }
Item(t, d) == [time |-> t, data |-> d]

\* u64 subtraction `now - value.0.time`.  When the minuend is the smaller
\* the difference wraps to 2^64 - (b - a), which exceeds every i32 TTL; it is
\* represented by a value above every TTL of the model.
U64Wrapped == 1000000

U64Sub(a, b) == IF a >= b THEN a - b ELSE U64Wrapped

\* sled::Db::open_tree(name): the tree, created empty when it is not there.
OpenTree(db, name) == IF name \in DOMAIN db THEN db ELSE MapPut(db, name, EmptyMap)

\* sled::Db::drop_tree(name)
DropTree(db, name) == MapDel(db, {name})

\* SledEngine::try_insert.  f is the step of the underlying store that fails
\* on this call ("none": no step fails).  The column's TTL is not read.  The
\* clock never reads before the epoch and an Item of bytes always encodes, so
\* the Put arm of duration_since and the Encode arm are not taken.
SledInsertBad(db, t, c, k, v, f) ==
  IF f = "open_tree" THEN [db |-> db, res |-> RErr("Engine"), fault |-> f]
  ELSE IF f = "insert" THEN [db |-> OpenTree(db, c.name), res |-> RErr("Put"), fault |-> f]
  ELSE [db |-> MapPut(OpenTree(db, c.name), c.name,
                      MapPut(OpenTree(db, c.name)[c.name], k, Item(t, <<>>))),
        res |-> ROk, fault |-> "none"]

SledInsert(db, t, c, k, v, f) ==
  IF f = "open_tree" THEN [db |-> db, res |-> RErr("Engine"), fault |-> f]
  ELSE IF f = "insert" THEN [db |-> OpenTree(db, c.name), res |-> RErr("Put"), fault |-> f]
  ELSE [db |-> MapPut(OpenTree(db, c.name), c.name,
                      MapPut(OpenTree(db, c.name)[c.name], k, Item(t, v))),
        res |-> ROk, fault |-> "none"]

\* The expiry test of SledEngine::try_get:
\* (now - value.0.time) > u64::try_from(c.get_ttl_in_seconds())?
\* for a TTL that converts (ttl >= 0).
SledExpiredBad(t, item, ttl) == U64Sub(t, item.time) >= ttl

SledExpired(t, item, ttl) == U64Sub(t, item.time) > ttl

SledHas(db, c, k) == c.name \in DOMAIN db /\ k \in DOMAIN db[c.name]

\* open_tree(c.name())?.remove(key_bytes) of the lazy cleanup: whatever the
\* tree holds under the key goes.
SledRemoveBad(db, name, k) == db

SledRemove(db, name, k) == MapPut(db, name, MapDel(db[name], {k}))

\* SledEngine::try_get.  "reopen" and "remove" are the two steps of the lazy
\* cleanup; they are reached only for an expired item.
SledGetBad(db, t, c, k, f) ==
  IF f = "open_tree" THEN [db |-> db, res |-> RErr("Engine"), fault |-> f]
  ELSE LET d1 == OpenTree(db, c.name) IN
    IF f = "get" THEN [db |-> d1, res |-> RErr("Get"), fault |-> f]
    ELSE IF k \notin DOMAIN d1[c.name] THEN [db |-> d1, res |-> RNone, fault |-> "none"]
    ELSE LET item == d1[c.name][k] IN
      IF c.ttl >= 0 /\ SledExpired(t, item, c.ttl) THEN
        IF f = "reopen" THEN [db |-> d1, res |-> RErr("Engine"), fault |-> f]
        ELSE IF f = "remove" THEN [db |-> d1, res |-> RPanic, fault |-> f]
        ELSE [db |-> SledRemove(d1, c.name, k), res |-> RNone, fault |-> "none"]
      ELSE [db |-> d1, res |-> RSome(item.data), fault |-> "none"]

SledGet(db, t, c, k, f) ==
  IF f = "open_tree" THEN [db |-> db, res |-> RErr("Engine"), fault |-> f]
  ELSE LET d1 == OpenTree(db, c.name) IN
    IF f = "get" THEN [db |-> d1, res |-> RErr("Get"), fault |-> f]
    ELSE IF k \notin DOMAIN d1[c.name] THEN [db |-> d1, res |-> RNone, fault |-> "none"]
    ELSE LET item == d1[c.name][k] IN
      IF c.ttl < 0 THEN [db |-> d1, res |-> RErr("Get"), fault |-> "none"]
      ELSE IF SledExpired(t, item, c.ttl) THEN
        IF f = "reopen" THEN [db |-> d1, res |-> RErr("Engine"), fault |-> f]
        ELSE IF f = "remove" THEN [db |-> d1, res |-> RPanic, fault |-> f]
        ELSE [db |-> SledRemove(d1, c.name, k), res |-> RNone, fault |-> "none"]
      ELSE [db |-> d1, res |-> RSome(item.data), fault |-> "none"]

\* SledEngine::try_get as built.  `now - value.0.time` is a plain u64
\* subtraction, evaluated before the TTL is converted: when the clock reads
\* less than the item's time it panics in a build with overflow checks (the
\* debug profile) and wraps in one without (the release profile, U64Sub).
SledGetBuild(db, t, c, k, f, checks) ==
  IF /\ checks /\ f \notin {"open_tree", "get"}
     /\ SledHas(db, c, k) /\ t < db[c.name][k].time
    THEN [db |-> db, res |-> RPanic, fault |-> "none"]
    ELSE SledGet(db, t, c, k, f)

\* SledEngine::try_drop_column: drop_tree, then open_tree.
SledDropBad(db, c, f) ==
  IF f = "drop_tree" THEN [db |-> db, res |-> RErr("Engine"), fault |-> f]
  ELSE [db |-> DropTree(db, c.name), res |-> ROk, fault |-> "none"]

SledDrop(db, c, f) ==
  IF f = "drop_tree" THEN [db |-> db, res |-> RErr("Engine"), fault |-> f]
  ELSE IF f = "open_tree" THEN [db |-> DropTree(db, c.name), res |-> RErr("Engine"), fault |-> f]
  ELSE [db |-> OpenTree(DropTree(db, c.name), c.name), res |-> ROk, fault |-> "none"]

SledInsertFaults == {"none", "open_tree", "insert"}

SledGetFaults == {"none", "open_tree", "get", "reopen", "remove"}

SledDropFaults == {"none", "drop_tree", "open_tree"}

\* ------------------------------------------------------------------ redis

\* let k = [c.name().as_bytes(), ":".as_bytes(), key].concat();
PhysKey(c, k) == c.name \o <<":">> \o k

\* format!("{}:*", c.name())
ScanPattern(c) == c.name \o <<":", "*">>

\* The remote store's glob matching of a MATCH pattern p against a key s:
\* '*' any run of bytes, '?' any one byte, '\' takes the next byte literally,
\* every other byte stands for itself.
RECURSIVE GlobMatch(_, _)
GlobMatch(p, s) ==
  IF p = <<>> THEN s = <<>>
  ELSE IF p[1] = "*" THEN
    GlobMatch(Tail(p), s) \/ (s # <<>> /\ GlobMatch(p, Tail(s)))
  ELSE IF p[1] = "?" THEN s # <<>> /\ GlobMatch(Tail(p), Tail(s))
  ELSE IF p[1] = "\\" /\ Len(p) >= 2 THEN
    s # <<>> /\ s[1] = p[2] /\ GlobMatch(Tail(Tail(p)), Tail(s))
  ELSE s # <<>> /\ s[1] = p[1] /\ GlobMatch(Tail(p), Tail(s))

\* A stored key: its value, its expiry deadline, and (not read by any
\* command) the time it was set.
Entry(v, exp, at) == [val |-> v, exp |-> exp, at |-> at]

\* The remote store treats a key as gone once the clock has passed its deadline.
RedisLive(db, t, pk) == pk \in DOMAIN db /\ ~(t > db[pk].exp)

\* conn.scan_match(pattern).collect(): the live keys the pattern matches.
ScanMatch(db, t, p) == { pk \in DOMAIN db : RedisLive(db, t, pk) /\ GlobMatch(p, pk) }

\* RedisEngine::try_insert.  f: "pool" (no connection from the pool), "set"
\* (the command fails in transit), "none".  SET .. EX 0 is refused by the
\* remote store (invalid expire time).
RedisInsertBad(db, t, c, k, v, f) ==
  IF f = "pool" THEN [db |-> db, res |-> RErr("Engine"), fault |-> f]
  ELSE IF c.ttl < 0 THEN [db |-> db, res |-> RErr("Put"), fault |-> "none"]
  ELSE IF f = "set" THEN [db |-> db, res |-> RErr("Put"), fault |-> f]
  ELSE IF c.ttl = 0 THEN [db |-> db, res |-> RErr("Put"), fault |-> "none"]
  ELSE [db |-> MapPut(db, PhysKey(c, k),
                      Entry(v, IF RedisLive(db, t, PhysKey(c, k))
                               THEN db[PhysKey(c, k)].exp ELSE t + c.ttl, t)),
        res |-> ROk, fault |-> "none"]

RedisInsert(db, t, c, k, v, f) ==
  IF f = "pool" THEN [db |-> db, res |-> RErr("Engine"), fault |-> f]
  ELSE IF c.ttl < 0 THEN [db |-> db, res |-> RErr("Put"), fault |-> "none"]
  ELSE IF f = "set" THEN [db |-> db, res |-> RErr("Put"), fault |-> f]
  ELSE IF c.ttl = 0 THEN [db |-> db, res |-> RErr("Put"), fault |-> "none"]
  ELSE [db |-> MapPut(db, PhysKey(c, k), Entry(v, t + c.ttl, t)),
        res |-> ROk, fault |-> "none"]

\* RedisEngine::try_get.  A GET of a key past its deadline removes it and
\* replies nil; nil converts to the empty Vec<u8>.
RedisGetBad(db, t, c, k, f) ==
  IF f = "pool" THEN [db |-> db, res |-> RErr("Engine"), fault |-> f]
  ELSE IF f = "get" THEN [db |-> db, res |-> RErr("Get"), fault |-> f]
  ELSE LET pk == PhysKey(c, k) IN
    IF RedisLive(db, t, pk)
      THEN [db |-> db, res |-> RSome(db[pk].val), fault |-> "none"]
      ELSE [db |-> MapDel(db, {pk}), res |-> RNone, fault |-> "none"]

RedisGet(db, t, c, k, f) ==
  IF f = "pool" THEN [db |-> db, res |-> RErr("Engine"), fault |-> f]
  ELSE IF f = "get" THEN [db |-> db, res |-> RErr("Get"), fault |-> f]
  ELSE LET pk == PhysKey(c, k)
           bytes == IF RedisLive(db, t, pk) THEN db[pk].val ELSE <<>>
           d1 == IF pk \in DOMAIN db /\ ~RedisLive(db, t, pk) THEN MapDel(db, {pk}) ELSE db
       IN [db |-> d1, res |-> IF bytes = <<>> THEN RNone ELSE RSome(bytes),
           fault |-> "none"]

\* RedisEngine::try_drop_column.  With f = "unlink" the keys in done have
\* been unlinked when the next unlink fails.
RedisDrop(db, t, c, f, done) ==
  IF f = "pool" THEN [db |-> db, res |-> RErr("Engine"), fault |-> f]
  ELSE IF f = "scan" THEN [db |-> db, res |-> RErr("Engine"), fault |-> f]
  ELSE LET items == ScanMatch(db, t, ScanPattern(c)) IN
    IF f = "unlink" /\ items # {}
    THEN [db |-> MapDel(db, done \cap items), res |-> RErr("Engine"), fault |-> f]
    ELSE [db |-> MapDel(db, items), res |-> ROk, fault |-> "none"]

RedisInsertFaults == {"none", "pool", "set"}

RedisGetFaults == {"none", "pool", "get"}

RedisDropFaults == {"none", "pool", "scan", "unlink"}

\* ------------------------------------------------------------------ noop

\* NoopEngine discards what it is given and holds nothing.
NoopInsert(c, k, v) == ROk

NoopGetBad(c, k) == RSome(<<>>)

NoopGet(c, k) == RNone

NoopDrop(c) == ROk

\* ------------------------------------------------------------------ Engine

\* The typed values of the callers: V of Engine::try_insert and try_get.
\* The types are (), bool, u8, and a type whose Encode impl returns an error.
Value(ty, x) == [type |-> ty, v |-> x]

NoValue == Value("none", "")

Values ==
  { Value("unit", ""), Value("bool", "true"), Value("u8", "2"),
    Value("failing", "") }

\* The V a caller of try_get asks for.
DecodeTypes == {"unit", "bool", "u8"}

\* bincode::encode_to_vec(value, standard()): () has no bytes, a bool is the
\* byte 0 or 1, a u8 is its byte.
Encode(val) ==
  IF val.type = "unit" THEN [ok |-> TRUE, bytes |-> <<>>]
  ELSE IF val.type = "bool"
    THEN [ok |-> TRUE, bytes |-> IF val.v = "true" THEN <<"1">> ELSE <<"0">>]
  ELSE IF val.type = "u8" THEN [ok |-> TRUE, bytes |-> <<val.v>>]
  ELSE [ok |-> FALSE, bytes |-> <<>>]

\* bincode::decode_from_slice(&bytes, standard()): reads the bytes the type
\* needs from the front and leaves the rest; () needs none, a bool needs one
\* byte that is 0 or 1, a u8 needs one byte.
Decode(ty, bytes) ==
  IF ty = "unit" THEN [ok |-> TRUE, value |-> Value("unit", "")]
  ELSE IF bytes = <<>> THEN [ok |-> FALSE, value |-> NoValue]
  ELSE IF ty = "u8" THEN [ok |-> TRUE, value |-> Value("u8", Head(bytes))]
  ELSE IF Head(bytes) = "0" THEN [ok |-> TRUE, value |-> Value("bool", "false")]
  ELSE IF Head(bytes) = "1" THEN [ok |-> TRUE, value |-> Value("bool", "true")]
  ELSE [ok |-> FALSE, value |-> NoValue]

\* Result<(), CacheError> and Result<Option<V>, CacheError> of Engine.
FOk == [kind |-> "Ok", err |-> "", value |-> NoValue]

FNone == [kind |-> "None", err |-> "", value |-> NoValue]

FSome(val) == [kind |-> "Some", err |-> "", value |-> val]

FErr(e) == [kind |-> "Err", err |-> e, value |-> NoValue]

\* A result of the backend that Engine hands on as it is.
Lift(r) == [kind |-> r.kind, err |-> r.err, value |-> NoValue]

\* self.storage.try_insert / try_get / try_drop_column: the call on the
\* backend the Engine was built with.
StorageInsert(e, s, r, t, c, k, v, f) ==
  IF e = "sled"
    THEN LET q == SledInsert(s, t, c, k, v, f) IN
         [sled |-> q.db, redis |-> r, res |-> q.res, fault |-> q.fault]
  ELSE IF e = "redis"
    THEN LET q == RedisInsert(r, t, c, k, v, f) IN
         [sled |-> s, redis |-> q.db, res |-> q.res, fault |-> q.fault]
  ELSE [sled |-> s, redis |-> r, res |-> NoopInsert(c, k, v), fault |-> "none"]

StorageGet(e, s, r, t, c, k, f) ==
  IF e = "sled"
    THEN LET q == SledGet(s, t, c, k, f) IN
         [sled |-> q.db, redis |-> r, res |-> q.res, fault |-> q.fault]
  ELSE IF e = "redis"
    THEN LET q == RedisGet(r, t, c, k, f) IN
         [sled |-> s, redis |-> q.db, res |-> q.res, fault |-> q.fault]
  ELSE [sled |-> s, redis |-> r, res |-> NoopGet(c, k), fault |-> "none"]

StorageDrop(e, s, r, t, c, f) ==
  IF e = "sled"
    THEN LET q == SledDrop(s, c, f) IN
         [sled |-> q.db, redis |-> r, res |-> q.res, fault |-> q.fault]
  ELSE IF e = "redis"
    THEN LET q == RedisDrop(r, t, c, f, {}) IN  \* a failing unlink is the first
         [sled |-> s, redis |-> q.db, res |-> q.res, fault |-> q.fault]
  ELSE [sled |-> s, redis |-> r, res |-> NoopDrop(c), fault |-> "none"]

\* The store steps that can fail under each backend.
StorageFaults(e, op) ==
  IF e = "sled"
    THEN (IF op = "insert" THEN SledInsertFaults
          ELSE IF op = "get" THEN SledGetFaults ELSE SledDropFaults)
  ELSE IF e = "redis"
    THEN (IF op = "insert" THEN RedisInsertFaults
          ELSE IF op = "get" THEN RedisGetFaults ELSE RedisDropFaults)
  ELSE {"none"}

\* Engine::try_insert: called says whether the backend was called, bytes what
\* it was given, res what the caller gets.
EngineInsertBad(e, s, r, t, c, k, val, f) ==
  LET q == StorageInsert(e, s, r, t, c, k, Encode(val).bytes, f) IN
    [sled |-> q.sled, redis |-> q.redis, called |-> TRUE,
     bytes |-> Encode(val).bytes, inner |-> q.res, fault |-> q.fault,
     res |-> IF Encode(val).ok THEN Lift(q.res) ELSE FErr("Encode")]

EngineInsert(e, s, r, t, c, k, val, f) ==
  LET enc == Encode(val) IN
    IF ~enc.ok
      THEN [sled |-> s, redis |-> r, called |-> FALSE, bytes |-> <<>>,
            inner |-> ROk, fault |-> "none", res |-> FErr("Encode")]
      ELSE LET q == StorageInsert(e, s, r, t, c, k, enc.bytes, f) IN
           [sled |-> q.sled, redis |-> q.redis, called |-> TRUE,
            bytes |-> enc.bytes, inner |-> q.res, fault |-> q.fault,
            res |-> Lift(q.res)]

\* Engine::try_get::<K, V> with V the type ty.
EngineGetBad(e, s, r, t, c, k, ty, f) ==
  LET q == StorageGet(e, s, r, t, c, k, f)
      d == Decode(ty, q.res.bytes)
  IN [sled |-> q.sled, redis |-> q.redis, inner |-> q.res, fault |-> q.fault,
      res |-> IF q.res.kind # "Some" THEN Lift(q.res)
              ELSE IF d.ok THEN FSome(d.value) ELSE FErr("Get")]

EngineGet(e, s, r, t, c, k, ty, f) ==
  LET q == StorageGet(e, s, r, t, c, k, f)
      d == Decode(ty, q.res.bytes)
  IN [sled |-> q.sled, redis |-> q.redis, inner |-> q.res, fault |-> q.fault,
      res |-> IF q.res.kind # "Some" THEN Lift(q.res)
              ELSE IF d.ok THEN FSome(d.value) ELSE FErr("Decode")]

\* Engine::try_drop_column
EngineDrop(e, s, r, t, c, f) ==
  LET q == StorageDrop(e, s, r, t, c, f) IN
    [sled |-> q.sled, redis |-> q.redis, inner |-> q.res, fault |-> q.fault,
     res |-> Lift(q.res)]

\* r2d2::Pool::builder().build(client): the pool's connections.
PoolSize == 2

Conns == 1 .. PoolSize

\* The caller threads of the concurrent runs.
Threads == {"t1", "t2"}

\* ------------------------------------------------------------------ state

VARIABLES
  engine,   \* Engine.storage: the backend chosen at construction
  sled,     \* SledEngine.inner: tree name -> (key -> Item)
  redis,    \* the remote store behind RedisEngine.inner: physical key -> Entry
  now,      \* wall clock, whole seconds since the epoch
  last,     \* the most recent storage call and its result
  ncalls,   \* storage calls made so far
  peer,     \* side-by-side runs: the networked backend's result of the call in last
  pool,     \* RedisEngine.inner: the idle connections of the pool
  thr,      \* concurrent runs: each caller thread's call in progress
  out       \* typed runs: the most recent call on Engine and its typed result

vars == <<engine, sled, redis, now, last, ncalls, peer, pool, thr, out>>

\* What the one-caller runs leave alone.
others == <<peer, pool, thr, out>>

Call(op, c, k, v, f, res) ==
  [op |-> op, col |-> c, key |-> k, val |-> v, fault |-> f, res |-> res]

\* A caller thread's call: where it stands (pc), the call's number and
\* arguments, the pooled connections it holds, the keys its drop has
\* enumerated and not yet unlinked, and its result.  Kept for the record only
\* (read by no step): since, the keys set by other calls after this drop's
\* enumeration; raced, those of them set before this drop returned; after,
\* the numbers of the drops that had returned Ok when this get read the store.
Thread(pc, id, op, c, k, v) ==
  [pc |-> pc, id |-> id, op |-> op, col |-> c, key |-> k, val |-> v,
   held |-> {}, items |-> {}, res |-> ROk,
   since |-> {}, raced |-> {}, after |-> {}]

IdleThread == Thread("idle", 0, "none", NoColumn, <<>>, <<>>)

\* A call on Engine: its number, its arguments (value: the V inserted; type:
\* the V asked for), its result, and prev, the operation of the call before.
EngineCall(n, op, prev, c, k, val, ty, res) ==
  [n |-> n, op |-> op, prev |-> prev, col |-> c, key |-> k, value |-> val,
   type |-> ty, res |-> res]

Start(e) ==
  /\ engine = e
  /\ sled = EmptyMap
  /\ redis = EmptyMap
  /\ now = 0
  /\ last = Call("none", NoColumn, <<>>, <<>>, "none", ROk)
  /\ ncalls = 0
  /\ peer = ROk
  /\ pool = Conns
  /\ thr = [t \in Threads |-> IdleThread]
  /\ out = EngineCall(0, "none", "none", NoColumn, <<>>, NoValue, "none", FOk)

\* Engine::new(SledEngine::build(..)) or Engine::new(RedisEngine::build(..))
Init == Start("sled") \/ Start("redis")

\* ------------------------------------------------------------------ calls

SledTryInsert(c, k, v, f) ==
  /\ engine = "sled" /\ ncalls < MaxCalls
  /\ LET r == SledInsert(sled, now, c, k, v, f) IN
       /\ sled' = r.db
       /\ last' = Call("insert", c, k, v, r.fault, r.res)
  /\ ncalls' = ncalls + 1
  /\ UNCHANGED <<engine, redis, now, others>>

SledTryGet(c, k, f) ==
  /\ engine = "sled" /\ ncalls < MaxCalls
  /\ LET r == SledGet(sled, now, c, k, f) IN
       /\ sled' = r.db
       /\ last' = Call("get", c, k, <<>>, r.fault, r.res)
  /\ ncalls' = ncalls + 1
  /\ UNCHANGED <<engine, redis, now, others>>

SledTryDropColumn(c, f) ==
  /\ engine = "sled" /\ ncalls < MaxCalls
  /\ LET r == SledDrop(sled, c, f) IN
       /\ sled' = r.db
       /\ last' = Call("drop", c, <<>>, <<>>, r.fault, r.res)
  /\ ncalls' = ncalls + 1
  /\ UNCHANGED <<engine, redis, now, others>>

RedisTryInsert(c, k, v, f) ==
  /\ engine = "redis" /\ ncalls < MaxCalls
  /\ LET r == RedisInsert(redis, now, c, k, v, f) IN
       /\ redis' = r.db
       /\ last' = Call("insert", c, k, v, r.fault, r.res)
  /\ ncalls' = ncalls + 1
  /\ UNCHANGED <<engine, sled, now, others>>

RedisTryGet(c, k, f) ==
  /\ engine = "redis" /\ ncalls < MaxCalls
  /\ LET r == RedisGet(redis, now, c, k, f) IN
       /\ redis' = r.db
       /\ last' = Call("get", c, k, <<>>, r.fault, r.res)
  /\ ncalls' = ncalls + 1
  /\ UNCHANGED <<engine, sled, now, others>>

RedisTryDropColumn(c, f, done) ==
  /\ engine = "redis" /\ ncalls < MaxCalls
  /\ LET r == RedisDrop(redis, now, c, f, done) IN
       /\ redis' = r.db
       /\ last' = Call("drop", c, <<>>, <<>>, r.fault, r.res)
  /\ ncalls' = ncalls + 1
  /\ UNCHANGED <<engine, sled, now, others>>

\* One second passes.
Tick ==
  /\ now < MaxNow
  /\ now' = now + 1
  /\ UNCHANGED <<engine, sled, redis, last, ncalls, others>>

Next ==
  \/ \E c \in Columns, k \in Keys, v \in Payloads, f \in SledInsertFaults :
       SledTryInsert(c, k, v, f)
  \/ \E c \in Columns, k \in Keys, f \in SledGetFaults : SledTryGet(c, k, f)
  \/ \E c \in Columns, f \in SledDropFaults : SledTryDropColumn(c, f)
  \/ \E c \in Columns, k \in Keys, v \in Payloads, f \in RedisInsertFaults :
       RedisTryInsert(c, k, v, f)
  \/ \E c \in Columns, k \in Keys, f \in RedisGetFaults : RedisTryGet(c, k, f)
  \/ \E c \in Columns, f \in RedisDropFaults :
       \E done \in (IF f = "unlink" THEN SUBSET (DOMAIN redis) ELSE {{}}) :
         RedisTryDropColumn(c, f, done)
  \/ Tick

Spec == Init /\ [][Next]_vars

\* ------------------------------------------------------------------ side by side

\* The same call made on an embedded and on a networked backend, both
\* stores working; last holds the embedded result, peer the networked one.
PairTryInsert(c, k, v) ==
  /\ engine = "both" /\ ncalls < MaxCalls
  /\ LET r == SledInsert(sled, now, c, k, v, "none")
         q == RedisInsert(redis, now, c, k, v, "none") IN
       /\ sled' = r.db /\ redis' = q.db
       /\ last' = Call("insert", c, k, v, "none", r.res)
       /\ peer' = q.res
  /\ ncalls' = ncalls + 1
  /\ UNCHANGED <<engine, now, pool, thr, out>>

PairTryGet(c, k) ==
  /\ engine = "both" /\ ncalls < MaxCalls
  /\ LET r == SledGet(sled, now, c, k, "none")
         q == RedisGet(redis, now, c, k, "none") IN
       /\ sled' = r.db /\ redis' = q.db
       /\ last' = Call("get", c, k, <<>>, "none", r.res)
       /\ peer' = q.res
  /\ ncalls' = ncalls + 1
  /\ UNCHANGED <<engine, now, pool, thr, out>>

PairTryDropColumn(c) ==
  /\ engine = "both" /\ ncalls < MaxCalls
  /\ LET r == SledDrop(sled, c, "none")
         q == RedisDrop(redis, now, c, "none", {}) IN
       /\ sled' = r.db /\ redis' = q.db
       /\ last' = Call("drop", c, <<>>, <<>>, "none", r.res)
       /\ peer' = q.res
  /\ ncalls' = ncalls + 1
  /\ UNCHANGED <<engine, now, pool, thr, out>>

NextPair ==
  \/ \E c \in Columns, k \in Keys, v \in Payloads : PairTryInsert(c, k, v)
  \/ \E c \in Columns, k \in Keys : PairTryGet(c, k)
  \/ \E c \in Columns : PairTryDropColumn(c)
  \/ Tick

SpecPair == Start("both") /\ [][NextPair]_vars

\* ------------------------------------------------------------------ concurrent callers

\* Caller threads share one RedisEngine.  A call is its steps on the pool
\* and on the remote store, each step atomic, steps of different threads in
\* any order.

\* self.inner.get(): an idle connection leaves the pool for the caller.
Acquire(p, cn) == p \ {cn}

\* The PooledConnection goes out of scope: it is back in the pool.
ReleaseBad(p, held) == p

Release(p, held) == p \cup held

\* conn.unlink(&i) of the drop loop.
UnlinkBad(db, pk) == db

Unlink(db, pk) == MapDel(db, {pk})

\* The columns and payloads of the concurrent runs.
ConcColumns == { c \in Columns : c.name = <<"a">> }

ConcPayloads == { <<"x">> }

\* The call returns res; the connection it holds, if any, is released.
Return(t, res) ==
  /\ thr' = [thr EXCEPT ![t].pc = "done", ![t].res = res, ![t].held = {},
                        ![t].items = {}]
  /\ pool' = Release(pool, thr[t].held)

\* A thread that is not in a call makes the next one.
Begin(t, op, c, k, v) ==
  /\ engine = "redis" /\ ncalls < MaxCalls
  /\ thr[t].pc \in {"idle", "done"}
  /\ thr' = [thr EXCEPT ![t] = Thread("acquire", ncalls + 1, op, c, k, v)]
  /\ ncalls' = ncalls + 1
  /\ UNCHANGED <<engine, sled, redis, now, last, peer, pool, out>>

\* match self.inner.get() { Ok(conn) => .. }
GetConn(t) ==
  /\ thr[t].pc = "acquire"
  /\ \E cn \in pool :
       /\ pool' = Acquire(pool, cn)
       /\ thr' = [thr EXCEPT ![t].pc = "cmd", ![t].held = thr[t].held \cup {cn}]
  /\ UNCHANGED <<engine, sled, redis, now, last, ncalls, peer, out>>

\* match self.inner.get() { .. Err(e) => Err(CacheError::Engine(..)) }: the
\* pool gives no connection (none idle in time, or none can be opened).
NoConnBad(t) ==
  /\ thr[t].pc = "acquire"
  /\ Return(t, RErr(IF thr[t].op = "insert" THEN "Put"
                    ELSE IF thr[t].op = "get" THEN "Get" ELSE "Engine"))
  /\ UNCHANGED <<engine, sled, redis, now, last, ncalls, peer, out>>

NoConn(t) ==
  /\ thr[t].pc = "acquire"
  /\ Return(t, RErr("Engine"))
  /\ UNCHANGED <<engine, sled, redis, now, last, ncalls, peer, out>>

\* The keys other threads' drops count as set after their enumeration.
NoteSet(th, t, pk) ==
  [u \in Threads |->
     IF u # t /\ th[u].op = "drop" /\ th[u].pc \in {"unlink", "done"}
     THEN [th[u] EXCEPT !.since = @ \cup {pk},
                        !.raced = IF th[u].pc = "unlink" THEN @ \cup {pk} ELSE @]
     ELSE th[u]]

\* RedisEngine::try_insert from the connection on: the TTL conversion, the
\* expiring SET, the return.
InsertCmd(t, f) ==
  /\ thr[t].pc = "cmd" /\ thr[t].op = "insert"
  /\ LET r == RedisInsert(redis, now, thr[t].col, thr[t].key, thr[t].val, f)
         th == IF r.res = ROk
               THEN NoteSet(thr, t, PhysKey(thr[t].col, thr[t].key)) ELSE thr IN
       /\ redis' = r.db
       /\ thr' = [th EXCEPT ![t].pc = "done", ![t].res = r.res, ![t].held = {}]
       /\ pool' = Release(pool, thr[t].held)
  /\ UNCHANGED <<engine, sled, now, last, ncalls, peer, out>>

\* The drops that have returned Ok.
DropsDone == { thr[u].id : u \in { u \in Threads :
                 thr[u].op = "drop" /\ thr[u].pc = "done" /\ thr[u].res = ROk } }

\* RedisEngine::try_get from the connection on: the GET, the return.
GetCmd(t, f) ==
  /\ thr[t].pc = "cmd" /\ thr[t].op = "get"
  /\ LET r == RedisGet(redis, now, thr[t].col, thr[t].key, f) IN
       /\ redis' = r.db
       /\ thr' = [thr EXCEPT ![t].pc = "done", ![t].res = r.res, ![t].held = {},
                             ![t].after = DropsDone]
       /\ pool' = Release(pool, thr[t].held)
  /\ UNCHANGED <<engine, sled, now, last, ncalls, peer, out>>

\* RedisEngine::try_drop_column: conn.scan_match(..).collect()
DropScan(t, f) ==
  /\ thr[t].pc = "cmd" /\ thr[t].op = "drop"
  /\ IF f = "scan"
     THEN Return(t, RErr("Engine"))
     ELSE /\ thr' = [thr EXCEPT ![t].pc = "unlink",
                       ![t].items = ScanMatch(redis, now, ScanPattern(thr[t].col))]
          /\ pool' = pool
  /\ UNCHANGED <<engine, sled, redis, now, last, ncalls, peer, out>>

\* RedisEngine::try_drop_column: one turn of `for i in items`.
DropUnlink(t, f) ==
  /\ thr[t].pc = "unlink" /\ thr[t].items # {}
  /\ IF f = "unlink"
     THEN Return(t, RErr("Engine")) /\ redis' = redis
     ELSE \E i \in thr[t].items :
            /\ redis' = Unlink(redis, i)
            /\ thr' = [thr EXCEPT ![t].items = @ \ {i}]
            /\ pool' = pool
  /\ UNCHANGED <<engine, sled, now, last, ncalls, peer, out>>

\* RedisEngine::try_drop_column: the loop is over, Ok(()).
DropReturn(t) ==
  /\ thr[t].pc = "unlink" /\ thr[t].items = {}
  /\ Return(t, ROk)
  /\ UNCHANGED <<engine, sled, redis, now, last, ncalls, peer, out>>

NextConc ==
  \/ \E t \in Threads, c \in ConcColumns, k \in Keys, v \in ConcPayloads :
       Begin(t, "insert", c, k, v)
  \/ \E t \in Threads, c \in ConcColumns, k \in Keys : Begin(t, "get", c, k, <<>>)
  \/ \E t \in Threads, c \in ConcColumns : Begin(t, "drop", c, <<>>, <<>>)
  \/ \E t \in Threads : GetConn(t)
  \/ \E t \in Threads : NoConn(t)
  \/ \E t \in Threads, f \in {"none", "set"} : InsertCmd(t, f)
  \/ \E t \in Threads, f \in {"none", "get"} : GetCmd(t, f)
  \/ \E t \in Threads, f \in {"none", "scan"} : DropScan(t, f)
  \/ \E t \in Threads, f \in {"none", "unlink"} : DropUnlink(t, f)
  \/ \E t \in Threads : DropReturn(t)

SpecConc == Start("redis") /\ [][NextConc]_vars

\* ------------------------------------------------------------------ embedded concurrent callers

\* Caller threads share one SledEngine.  try_insert is one write of the tree.
\* try_get is a read of the tree with the expiry test, and, for an entry found
\* expired, a later remove by key; calls of other threads can come in between.

\* A thread that is not in a call makes the next one.
Enter(t, op, c, k, v) ==
  /\ engine = "sled" /\ ncalls < MaxCalls
  /\ thr[t].pc \in {"idle", "done"}
  /\ thr' = [thr EXCEPT ![t] = Thread("store", ncalls + 1, op, c, k, v)]
  /\ ncalls' = ncalls + 1
  /\ UNCHANGED <<engine, sled, redis, now, last, peer, pool, out>>

\* SledEngine::try_insert: open_tree(..).insert(key, bytes)
InsertStep(t) ==
  /\ thr[t].pc = "store" /\ thr[t].op = "insert"
  /\ LET r == SledInsert(sled, now, thr[t].col, thr[t].key, thr[t].val, "none") IN
       /\ sled' = r.db
       /\ thr' = [thr EXCEPT ![t].pc = "done", ![t].res = r.res]
  /\ UNCHANGED <<engine, redis, now, last, ncalls, peer, pool, out>>

\* SledEngine::try_get up to the expiry test: open_tree(..).get(key), the
\* decoding, the TTL conversion and the comparison with the clock.  An entry
\* found expired sends the call to its cleanup; every other arm returns.
ReadStep(t) ==
  /\ thr[t].pc = "store" /\ thr[t].op = "get"
  /\ LET c == thr[t].col
         k == thr[t].key
         r == SledGet(sled, now, c, k, "none") IN
       IF SledHas(sled, c, k) /\ c.ttl >= 0 /\ SledExpired(now, sled[c.name][k], c.ttl)
         THEN /\ sled' = OpenTree(sled, c.name)
              /\ thr' = [thr EXCEPT ![t].pc = "cleanup"]
         ELSE /\ sled' = r.db
              /\ thr' = [thr EXCEPT ![t].pc = "done", ![t].res = r.res]
  /\ UNCHANGED <<engine, redis, now, last, ncalls, peer, pool, out>>

\* The cleanup of SledEngine::try_get: open_tree(..).remove(key_bytes), then
\* return Ok(None).
CleanupStep(t) ==
  /\ thr[t].pc = "cleanup"
  /\ sled' = SledRemove(OpenTree(sled, thr[t].col.name), thr[t].col.name, thr[t].key)
  /\ thr' = [thr EXCEPT ![t].pc = "done", ![t].res = RNone]
  /\ UNCHANGED <<engine, redis, now, last, ncalls, peer, pool, out>>

NextSled ==
  \/ \E t \in Threads, c \in ConcColumns, k \in Keys, v \in Payloads :
       Enter(t, "insert", c, k, v)
  \/ \E t \in Threads, c \in ConcColumns, k \in Keys : Enter(t, "get", c, k, <<>>)
  \/ \E t \in Threads : InsertStep(t)
  \/ \E t \in Threads : ReadStep(t)
  \/ \E t \in Threads : CleanupStep(t)
  \/ Tick

SpecSled == Start("sled") /\ [][NextSled]_vars

\* ------------------------------------------------------------------ keys with separators

\* One caller, the stores working, on columns whose names differ by a
\* trailing ':' and keys that start with one or do not.
SeparatorColumns == { c \in Columns : c.ttl = 1 /\ c.name \in { <<"a">>, <<"a", ":">> } }

SeparatorKeys == { <<"k">>, <<":", "k">> }

NextKeys ==
  \/ \E c \in SeparatorColumns, k \in SeparatorKeys, v \in Payloads :
       SledTryInsert(c, k, v, "none")
  \/ \E c \in SeparatorColumns, k \in SeparatorKeys : SledTryGet(c, k, "none")
  \/ \E c \in SeparatorColumns, k \in SeparatorKeys, v \in Payloads :
       RedisTryInsert(c, k, v, "none")
  \/ \E c \in SeparatorColumns, k \in SeparatorKeys : RedisTryGet(c, k, "none")
  \/ Tick

SpecKeys == Init /\ [][NextKeys]_vars

\* ------------------------------------------------------------------ clock set back

\* One caller on the embedded backend, the store working, under a wall clock
\* that can be set back between calls.
ClockColumns == { c \in Columns : c.name = <<"a">> }

\* checks: whether the build has overflow checks.
SledTryGetBuild(c, k, checks) ==
  /\ engine = "sled" /\ ncalls < MaxCalls
  /\ LET r == SledGetBuild(sled, now, c, k, "none", checks) IN
       /\ sled' = r.db
       /\ last' = Call("get", c, k, <<>>, r.fault, r.res)
  /\ ncalls' = ncalls + 1
  /\ UNCHANGED <<engine, redis, now, others>>

\* SystemTime::now() reads a second less than before.
ClockBack ==
  /\ now > 0
  /\ now' = now - 1
  /\ UNCHANGED <<engine, sled, redis, last, ncalls, others>>

NextClock ==
  \/ \E c \in ClockColumns, k \in Keys, v \in Payloads : SledTryInsert(c, k, v, "none")
  \/ \E c \in ClockColumns, k \in Keys, checks \in BOOLEAN :
       SledTryGetBuild(c, k, checks)
  \/ Tick
  \/ ClockBack

SpecClock == Start("sled") /\ [][NextClock]_vars

\* ------------------------------------------------------------------ typed callers

\* Calls on Engine with typed values, over each backend; last and ncalls
\* record the calls Engine makes on its backend.
Backends == {"noop", "sled", "redis"}

EngineColumns == { c \in Columns : c.name = <<"a">> /\ c.ttl # 0 }

EngineTryInsert(c, k, val, f) ==
  /\ engine \in Backends /\ out.n < MaxCalls
  /\ LET r == EngineInsert(engine, sled, redis, now, c, k, val, f) IN
       /\ sled' = r.sled /\ redis' = r.redis
       /\ last' = IF r.called THEN Call("insert", c, k, r.bytes, r.fault, r.inner)
                  ELSE last
       /\ ncalls' = IF r.called THEN ncalls + 1 ELSE ncalls
       /\ out' = EngineCall(out.n + 1, "insert", out.op, c, k, val, "none", r.res)
  /\ UNCHANGED <<engine, now, peer, pool, thr>>

EngineTryGet(c, k, ty, f) ==
  /\ engine \in Backends /\ out.n < MaxCalls
  /\ LET r == EngineGet(engine, sled, redis, now, c, k, ty, f) IN
       /\ sled' = r.sled /\ redis' = r.redis
       /\ last' = Call("get", c, k, <<>>, r.fault, r.inner)
       /\ out' = EngineCall(out.n + 1, "get", out.op, c, k, NoValue, ty, r.res)
  /\ ncalls' = ncalls + 1
  /\ UNCHANGED <<engine, now, peer, pool, thr>>

EngineTryDropColumn(c, f) ==
  /\ engine \in Backends /\ out.n < MaxCalls
  /\ LET r == EngineDrop(engine, sled, redis, now, c, f) IN
       /\ sled' = r.sled /\ redis' = r.redis
       /\ last' = Call("drop", c, <<>>, <<>>, r.fault, r.inner)
       /\ out' = EngineCall(out.n + 1, "drop", out.op, c, <<>>, NoValue, "none", r.res)
  /\ ncalls' = ncalls + 1
  /\ UNCHANGED <<engine, now, peer, pool, thr>>

NextEngine ==
  \/ \E c \in EngineColumns, k \in Keys, val \in Values :
       \E f \in StorageFaults(engine, "insert") : EngineTryInsert(c, k, val, f)
  \/ \E c \in EngineColumns, k \in Keys, ty \in DecodeTypes :
       \E f \in StorageFaults(engine, "get") : EngineTryGet(c, k, ty, f)
  \/ \E c \in EngineColumns :
       \E f \in StorageFaults(engine, "drop") : EngineTryDropColumn(c, f)
  \/ Tick

\* Engine::default(), Engine::new(SledEngine::build(..)) or
\* Engine::new(RedisEngine::build(..))
InitEngine == \E e \in Backends : Start(e)

SpecEngine == InitEngine /\ [][NextEngine]_vars

\* ------------------------------------------------------------------ views

\* The step is a storage call (it is the call recorded in last').
CallStep == ncalls' = ncalls + 1

\* Every (tree, key, item) the embedded store holds.
SledEntries(db) ==
  UNION { { <<n, k, db[n][k]>> : k \in DOMAIN db[n] } : n \in DOMAIN db }

\* The backend holds an entry for (c, k).
Has(c, k) ==
  IF engine = "sled" THEN SledHas(sled, c, k) ELSE PhysKey(c, k) \in DOMAIN redis

\* The time at which the entry for (c, k) was written.
WrittenAt(c, k) ==
  IF engine = "sled" THEN sled[c.name][k].time ELSE redis[PhysKey(c, k)].at

\* The payload held for (c, k).
Held(c, k) ==
  IF engine = "sled" THEN sled[c.name][k].data ELSE redis[PhysKey(c, k)].val

\* What a try_get(c, k) served by a working store returns now.
WouldGet(c, k) ==
  IF engine = "sled" THEN SledGet(sled, now, c, k, "none").res
  ELSE RedisGet(redis, now, c, k, "none").res

\* ------------------------------------------------------------------ C1

\* The step is a try_get(c, k) served by a working store, made right after a
\* successful try_insert(c, k, v) with a TTL > 0, in the second of the insert.
GetRightAfterInsert ==
  /\ CallStep
  /\ last.op = "insert" /\ last.res = ROk /\ last.col.ttl > 0
  /\ Has(last.col, last.key) /\ WrittenAt(last.col, last.key) = now
  /\ last'.op = "get" /\ last'.col = last.col /\ last'.key = last.key
  /\ last'.fault = "none"

\* C1 as stated: on both TTL-bearing backends a try_get right after a
\* successful try_insert (TTL > 0, no elapsed time) returns Ok(Some(v)) for
\* any payload v.
C1_GetAfterInsertAnyPayload ==
  [][GetRightAfterInsert => last'.res = RSome(last.val)]_vars

\* C1 amended: the same, for any payload on the embedded backend and for any
\* non-empty payload on the networked backend.
C1_GetAfterInsert ==
  [][(GetRightAfterInsert /\ (engine = "sled" \/ last.val # <<>>))
       => last'.res = RSome(last.val)]_vars

\* C1 witness: a try_get has returned the payload of an entry written in the
\* current second under a TTL > 0.
C1_Witness ==
  /\ last.op = "get" /\ last.res.kind = "Some" /\ last.col.ttl > 0
  /\ Has(last.col, last.key) /\ WrittenAt(last.col, last.key) = now
  /\ last.res.bytes = Held(last.col, last.key)

\* ------------------------------------------------------------------ C2

\* The step is a try_get(c, k) whose read of the store succeeds, on an entry
\* written more than c.ttl seconds ago under that TTL.
GetPastTtl ==
  /\ CallStep
  /\ last'.op = "get" /\ last'.fault \in {"none", "reopen", "remove"}
  /\ Has(last'.col, last'.key)
  /\ now - WrittenAt(last'.col, last'.key) > last'.col.ttl
  /\ engine = "redis" =>
       LET e == redis[PhysKey(last'.col, last'.key)] IN e.exp - e.at = last'.col.ttl

\* C2 as stated: on both TTL-bearing backends a try_get of an entry whose
\* time since its most recent insertion exceeds the column's ttl_seconds
\* returns Ok(None).
C2_NoneAfterTtl == [][GetPastTtl => last'.res = RNone]_vars

\* ------------------------------------------------------------------ C3

\* C3 as stated: on every backend a try_get(c, k) served by a working store
\* right after a try_drop_column(c) that returned Ok returns Ok(None).
C3_NoneAfterDrop ==
  [][(/\ CallStep
      /\ last.op = "drop" /\ last.res = ROk
      /\ last'.op = "get" /\ last'.col.name = last.col.name
      /\ last'.fault = "none")
       => last'.res = RNone]_vars

\* ------------------------------------------------------------------ C4

\* C4 as stated: a try_drop_column(A) that returns Ok leaves, for every
\* column B of another name and every key k held in both A and B, what
\* try_get(B, k) returns unchanged.
C4_DropLeavesOtherColumns ==
  [][(CallStep /\ last'.op = "drop" /\ last'.res = ROk)
       => \A b \in Columns, k \in Keys :
            (b.name # last'.col.name /\ Has(last'.col, k) /\ Has(b, k))
              => WouldGet(b, k)' = WouldGet(b, k)]_vars

\* ------------------------------------------------------------------ C5

\* C5: on the embedded backend a try_get that reads an entry returns its
\* payload exactly when now - insertion_time <= ttl_seconds (elapsed equal to
\* the TTL is alive, a TTL of 0 serves the second of the insert).
C5_AliveThroughTtl ==
  [][(/\ CallStep /\ engine = "sled"
      /\ last'.op = "get" /\ last'.fault \notin {"open_tree", "get"}
      /\ SledHas(sled, last'.col, last'.key))
       => LET item == sled[last'.col.name][last'.key] IN
            (last'.res = RSome(item.data)) <=> (now - item.time <= last'.col.ttl)]_vars

\* C5 witness: the embedded try_get has returned the payload at elapsed time
\* equal to the TTL (an entry of this second under a TTL of 0).
C5_Witness ==
  /\ engine = "sled" /\ last.op = "get" /\ last.col.ttl = 0
  /\ SledHas(sled, last.col, last.key)
  /\ sled[last.col.name][last.key].time = now
  /\ last.res = RSome(sled[last.col.name][last.key].data)

\* ------------------------------------------------------------------ C6

\* C6 as stated: on both TTL-bearing backends a try_insert under a negative
\* ttl_seconds (the store working) returns a Put error and stores nothing.
C6_NegativeTtlRejected ==
  [][(CallStep /\ last'.op = "insert" /\ last'.col.ttl < 0 /\ last'.fault = "none")
       => /\ last'.res = RErr("Put")
          /\ SledEntries(sled') = SledEntries(sled)
          /\ redis' = redis]_vars

\* ------------------------------------------------------------------ C7

\* C7 as stated: an embedded try_get that reads an expired entry (TTL >= 0)
\* returns Ok(None), whatever becomes of the cleanup.
C7_ExpiredIsNone ==
  [][(/\ CallStep /\ engine = "sled"
      /\ last'.op = "get" /\ last'.fault \in {"none", "reopen", "remove"}
      /\ SledHas(sled, last'.col, last'.key)
      /\ last'.col.ttl >= 0
      /\ SledExpired(now, sled[last'.col.name][last'.key], last'.col.ttl))
       => last'.res = RNone]_vars

\* ------------------------------------------------------------------ C10

\* The get of the step reads an entry within one second of its expiry.
NearExpiry ==
  /\ last'.op = "get"
  /\ \/ /\ SledHas(sled, last'.col, last'.key)
        /\ now - sled[last'.col.name][last'.key].time - last'.col.ttl \in -1 .. 1
     \/ /\ PhysKey(last'.col, last'.key) \in DOMAIN redis
        /\ now - redis[PhysKey(last'.col, last'.key)].exp \in -1 .. 1

\* C10 as stated: the same call, made after the same calls at the same times
\* on the embedded and on the networked backend, returns the same result on
\* both (away from the expiry boundary).
C10_SameResults == [][(CallStep /\ ~NearExpiry) => last'.res = peer']_vars

\* ------------------------------------------------------------------ C8

DropReturnedOk(t) == thr[t].op = "drop" /\ thr[t].pc = "done" /\ thr[t].res = ROk

\* C8: the networked drop is enumerate-then-delete.  Once it has returned
\* Ok, every live key of the column's pattern was set after the drop's
\* enumeration: what was enumerated is gone, what was set later may remain.
C8_SurvivorsWereSetAfterScan ==
  \A t \in Threads :
    DropReturnedOk(t) =>
      \A pk \in DOMAIN redis :
        (RedisLive(redis, now, pk) /\ GlobMatch(ScanPattern(thr[t].col), pk))
          => pk \in thr[t].since

\* C8 witness: a try_insert into the column completed after a drop's
\* enumeration and before the drop returned Ok, no other insert followed, and
\* a try_get that read the store after the drop had returned got the entry.
C8_Witness ==
  \E t \in Threads, u \in Threads :
    /\ t # u /\ DropReturnedOk(t)
    /\ thr[u].op = "get" /\ thr[u].pc = "done" /\ thr[u].res.kind = "Some"
    /\ thr[u].col.name = thr[t].col.name
    /\ PhysKey(thr[u].col, thr[u].key) \in thr[t].raced
    /\ thr[t].since = thr[t].raced
    /\ thr[t].id \in thr[u].after

\* ------------------------------------------------------------------ C9

InCall(t) == thr[t].pc \in {"acquire", "cmd", "unlink"}

\* C9: a call holds at most one pooled connection and only between its
\* acquisition and its return, no connection is held twice or both held and
\* idle, and with no call in progress every connection is in the pool.
C9_ConnectionsScoped ==
  /\ \A t \in Threads :
       /\ Cardinality(thr[t].held) <= 1
       /\ thr[t].held \cap pool = {}
       /\ thr[t].pc \in {"idle", "acquire", "done"} => thr[t].held = {}
       /\ thr[t].pc \in {"cmd", "unlink"} => Cardinality(thr[t].held) = 1
  /\ \A t \in Threads, u \in Threads : t # u => thr[t].held \cap thr[u].held = {}
  /\ (\A t \in Threads : ~InCall(t)) => pool = Conns

\* C9 witness: no call is in progress, all connections are idle, and calls
\* have returned by the negative-TTL Put error and by an Engine error.
C9_Witness ==
  /\ \A t \in Threads : ~InCall(t)
  /\ pool = Conns
  /\ \E t \in Threads : thr[t].res = RErr("Put") /\ thr[t].col.ttl < 0
  /\ \E t \in Threads : thr[t].res = RErr("Engine") /\ thr[t].op = "drop"

\* ------------------------------------------------------------------ C11

C12_NoConnectionLeavesStore ==
  [][\A t \in Threads :
       thr[t].pc = "acquire" /\ thr'[t].pc = "done" =>
         /\ thr'[t].res = RErr("Engine")
         /\ thr'[t].held = {}
         /\ redis' = redis
         /\ pool' = pool
         /\ \A u \in Threads \ {t} : thr'[u] = thr[u]]_vars

\* An insert got no connection while the pool was idle; the get made after it
\* was served and found nothing.
C12_Witness ==
  /\ engine = "redis"
  /\ \E t \in Threads, u \in Threads :
       /\ thr[t].op = "insert" /\ thr[t].pc = "done" /\ thr[t].res = RErr("Engine")
       /\ thr[u].op = "get" /\ thr[u].pc = "done" /\ thr[u].res = RNone
       /\ thr[u].id > thr[t].id /\ thr[u].col = thr[t].col /\ thr[u].col.ttl > 0
       /\ redis = EmptyMap /\ pool = Conns

\* ------------------------------------------------------------------ C13

\* The step is a call on Engine.
EngineStep == out'.n = out.n + 1

\* C13: Engine::try_insert encodes the value first.  When the encoding fails
\* it returns an Encode error and makes no call on the backend, so the store
\* is unchanged; when it succeeds it calls the backend's try_insert exactly
\* once, with the caller's column and key bytes and the encoded value, and
\* returns that call's result as it is.
C13_InsertEncodesThenDelegates ==
  [][EngineStep /\ out'.op = "insert" =>
       LET enc == Encode(out'.value) IN
         IF ~enc.ok
           THEN /\ out'.res = FErr("Encode")
                /\ ncalls' = ncalls /\ last' = last
                /\ sled' = sled /\ redis' = redis
           ELSE /\ ncalls' = ncalls + 1
                /\ last'.op = "insert"
                /\ last'.col = out'.col /\ last'.key = out'.key
                /\ last'.val = enc.bytes
                /\ out'.res = Lift(last'.res)]_vars

\* A first insert was encoded and handed to the backend, which stored it; a
\* second, of a value that does not encode, never reached the backend.
C13_Witness ==
  /\ engine = "sled"
  /\ out.n = 2 /\ out.op = "insert" /\ out.prev = "insert"
  /\ ~Encode(out.value).ok /\ out.res = FErr("Encode")
  /\ ncalls = 1 /\ last.op = "insert" /\ last.res = ROk /\ last.val = <<"1">>
  /\ SledHas(sled, last.col, last.key)

\* ------------------------------------------------------------------ C14

\* C14: Engine::try_get makes one try_get call on the backend and has three
\* outcomes besides the decoded value.  The backend returned no bytes: Ok(None).
\* The backend returned bytes that do not decode as the type asked for: a
\* Decode error, and nothing else.  The backend failed: the backend's own
\* error, as it is, which is never a Decode error.
C14_GetOutcomes ==
  [][EngineStep /\ out'.op = "get" =>
       LET inner == last'.res
           d == Decode(out'.type, inner.bytes) IN
         /\ ncalls' = ncalls + 1
         /\ last'.op = "get" /\ last'.col = out'.col /\ last'.key = out'.key
         /\ inner = RNone => out'.res = FNone
         /\ inner.kind = "Some" /\ ~d.ok => out'.res = FErr("Decode")
         /\ inner.kind = "Some" /\ d.ok => out'.res = FSome(d.value)
         /\ inner.kind \in {"Err", "Panic"} =>
              /\ out'.res = Lift(inner)
              /\ out'.res.err # "Decode"]_vars

\* The embedded backend returned the byte 2 to a caller asking for a bool.
C14_Witness ==
  /\ engine = "sled"
  /\ out.op = "get" /\ out.type = "bool" /\ out.prev = "insert"
  /\ last.op = "get" /\ last.res = RSome(<<"2">>)
  /\ out.res = FErr("Decode")

\* ------------------------------------------------------------------ C15

\* C15: on the embedded backend a try_drop_column whose two store steps work
\* returns Ok, whether the column held entries, held none, or was dropped just
\* before; and after a try_drop_column that returned Ok the column's tree
\* exists and is empty and the column is usable: a try_insert on it succeeds,
\* and a try_get of that key within the TTL returns the payload inserted.
C15_DroppedColumnUsable ==
  [][CallStep /\ engine = "sled" /\ last'.op = "drop" =>
       LET c == last'.col IN
         /\ last'.fault = "none" => last'.res = ROk
         /\ last'.res = ROk =>
              /\ c.name \in DOMAIN sled' /\ sled'[c.name] = EmptyMap
              /\ \A k \in Keys, v \in Payloads :
                   LET i == SledInsert(sled', now', c, k, v, "none") IN
                     /\ i.res = ROk
                     /\ \A t \in now' .. MaxNow :
                          c.ttl >= 0 /\ t - now' <= c.ttl =>
                            SledGet(i.db, t, c, k, "none").res = RSome(v)]_vars

\* The third call was a drop that returned Ok; the column's tree, the only
\* one, is in place and empty.
C15_Witness ==
  /\ engine = "sled" /\ ncalls = 3
  /\ last.op = "drop" /\ last.res = ROk /\ last.col.ttl = 1
  /\ DOMAIN sled = {last.col.name} /\ sled[last.col.name] = EmptyMap

\* ------------------------------------------------------------------ C16

\* C16: the networked try_get returns Ok(None) when the bytes it reads are
\* empty: for a key that holds an empty payload, stored by a try_insert that
\* returned Ok and not yet expired, the result is Ok(None), the result of a
\* key never set or expired, and the entry stays where it is.
C16_EmptyPayloadReadsAsAbsent ==
  [][/\ CallStep /\ engine = "redis"
     /\ last'.op = "get" /\ last'.fault = "none"
     /\ RedisLive(redis, now, PhysKey(last'.col, last'.key))
     /\ redis[PhysKey(last'.col, last'.key)].val = <<>>
     => /\ last'.res = RNone
        /\ last'.res = RedisGet(EmptyMap, now, last'.col, last'.key, "none").res
        /\ redis' = redis]_vars

\* A get right after the insert of an empty payload returned Ok(None) with the
\* entry live in the store.
C16_Witness ==
  /\ engine = "redis" /\ ncalls = 2
  /\ last.op = "get" /\ last.fault = "none" /\ last.res = RNone
  /\ RedisLive(redis, now, PhysKey(last.col, last.key))
  /\ redis[PhysKey(last.col, last.key)].val = <<>>
  /\ redis[PhysKey(last.col, last.key)].at = now

\* ------------------------------------------------------------------ C17

\* The call of the step converts a negative TTL to unsigned: an embedded
\* try_get of a key that is present, or a networked try_insert.
ConvertsNegativeTtl ==
  /\ CallStep /\ last'.col.ttl < 0
  /\ \/ engine = "sled" /\ last'.op = "get" /\ SledHas(sled, last'.col, last'.key)
     \/ engine = "redis" /\ last'.op = "insert"

\* C17: a negative TTL is not wrapped into a large unsigned duration.  Every
\* call that converts it returns an error (Get from the embedded try_get, Put
\* from the networked try_insert, when the store itself works), returns no
\* payload, and adds no entry to the store and takes none from it.
C17_NegativeTtlNotWrapped ==
  [][ConvertsNegativeTtl =>
       /\ last'.res.kind = "Err" /\ last'.res.bytes = <<>>
       /\ last'.fault = "none" =>
            last'.res = RErr(IF engine = "sled" THEN "Get" ELSE "Put")
       /\ SledEntries(sled') = SledEntries(sled)
       /\ redis' = redis]_vars

\* An embedded get of a present entry under a TTL of -1 returned Err(Get); the
\* entry is still there.
C17_Witness ==
  /\ engine = "sled"
  /\ last.op = "get" /\ last.col.ttl < 0 /\ last.fault = "none"
  /\ last.res = RErr("Get")
  /\ SledHas(sled, last.col, last.key)

\* ------------------------------------------------------------------ C18

\* The embedded try_get of the step reads its entry and finds it expired.
FoundExpired ==
  /\ last'.fault \in {"none", "reopen", "remove"}
  /\ SledHas(sled, last'.col, last'.key)
  /\ last'.col.ttl >= 0
  /\ SledExpired(now, sled[last'.col.name][last'.key], last'.col.ttl)

Alive(db, t, c, k) ==
  SledHas(db, c, k) /\ c.ttl >= 0 /\ ~SledExpired(t, db[c.name][k], c.ttl)

\* C19: the lazy deletion of the embedded try_get removes no entry that is
\* alive.  When a try_get has read an expired entry and a try_insert of the
\* same column and key has completed before the try_get's removal step, the
\* removal leaves the new entry in place: a try_get within the TTL returns
\* the payload after the removal as it did before.
C19_CleanupSparesAliveEntry ==
  [][\A t \in Threads :
       /\ thr[t].pc = "cleanup" /\ thr'[t].pc = "done"
       /\ Alive(sled, now, thr[t].col, thr[t].key)
       => SledGet(sled', now, thr[t].col, thr[t].key, "none").res
            = SledGet(sled, now, thr[t].col, thr[t].key, "none").res]_vars

\* ------------------------------------------------------------------ C20

\* C20: columns are isolated for insert and get, whatever bytes the keys are
\* made of.  A try_insert(A, k, v) leaves the result of try_get(B, k2)
\* unchanged for every column B of another name and every key k2; and no two
\* distinct (column name, key) pairs share a physical key of the networked
\* store (on the embedded store they are different keys or different trees).
C20_ColumnsIsolated ==
  [][CallStep /\ last'.op = "insert" =>
       \A b \in SeparatorColumns, k2 \in SeparatorKeys :
         /\ engine = "redis" /\ <<b.name, k2>> # <<last'.col.name, last'.key>> =>
              PhysKey(b, k2) # PhysKey(last'.col, last'.key)
         /\ b.name # last'.col.name =>
              IF engine = "sled"
                THEN SledGet(sled', now', b, k2, "none").res
                       = SledGet(sled, now, b, k2, "none").res
                ELSE RedisGet(redis', now', b, k2, "none").res
                       = RedisGet(redis, now, b, k2, "none").res]_vars

\* ------------------------------------------------------------------ C21

\* The payload and the insertion time that the stores s (embedded) and r
\* (networked) hold for (c, k) on the backend in use; <<>> when they hold none.
StoredIn(s, r, c, k) ==
  IF engine = "sled"
    THEN (IF SledHas(s, c, k)
            THEN <<s[c.name][k].data, s[c.name][k].time>> ELSE <<>>)
    ELSE (IF PhysKey(c, k) \in DOMAIN r
            THEN <<r[PhysKey(c, k)].val, r[PhysKey(c, k)].at>> ELSE <<>>)

\* The step is a try_insert that returned Ok.
InsertReturnedOk == CallStep /\ last'.op = "insert" /\ last'.res = ROk

\* The step is a try_get(c, k) served by a working store whose latest call
\* before it, any time earlier, was a try_insert(c, k, v) that returned Ok.
GetAfterLatestInsert ==
  /\ CallStep
  /\ last.op = "insert" /\ last.res = ROk
  /\ last'.op = "get" /\ last'.col = last.col /\ last'.key = last.key
  /\ last'.fault = "none"

\* The entry of the latest insert is within its TTL at the time of the step.
WithinTtlOfLatest == now - WrittenAt(last.col, last.key) <= last.col.ttl

\* C21 as stated: a try_insert on a (column, key) that returns Ok replaces
\* whatever the key held, payload and insertion time alike, and a try_get
\* after it returns the payload of that latest insert exactly when the time
\* elapsed since it is at most ttl_seconds, whenever earlier inserts were made.
C21_LatestInsertWinsAnyPayload ==
  [][/\ InsertReturnedOk =>
          StoredIn(sled', redis', last'.col, last'.key) = <<last'.val, now>>
     /\ GetAfterLatestInsert =>
          /\ Has(last.col, last.key)
          /\ last'.res = RSome(last.val) <=> WithinTtlOfLatest
          /\ last'.res.kind = "Some" => last'.res = RSome(last.val)]_vars

\* C21, amended: the same, except that on the networked backend an empty
\* payload is never read back: the try_get after its insert returns Ok(None).
C21_LatestInsertWins ==
  [][/\ InsertReturnedOk =>
          StoredIn(sled', redis', last'.col, last'.key) = <<last'.val, now>>
     /\ GetAfterLatestInsert =>
          /\ Has(last.col, last.key)
          /\ last'.res = RSome(last.val) <=>
               WithinTtlOfLatest /\ ~(engine = "redis" /\ last.val = <<>>)
          /\ last'.res.kind = "Some" => last'.res = RSome(last.val)
          /\ engine = "redis" /\ last.val = <<>> => last'.res = RNone]_vars

\* The third call, a networked get at second 2 under a TTL of one second,
\* returned the payload of an insert made at second 1.
C21_Witness ==
  /\ engine = "redis" /\ ncalls = 3 /\ now = 2
  /\ last.op = "get" /\ last.fault = "none" /\ last.col.ttl = 1
  /\ last.res = RSome(<<"x">>)
  /\ Has(last.col, last.key) /\ WrittenAt(last.col, last.key) = 1

\* ------------------------------------------------------------------ C22

\* C22: the embedded try_get's elapsed time, now - insertion time on unsigned
\* 64-bit seconds, never underflows.  Whatever the clock reads at the get, a
\* reading below the insertion time included, a try_get served by the store
\* returns Ok or Err and does not abort; and an entry whose age by the clock,
\* now - insertion time as a signed difference, is at most its TTL is
\* returned and kept, not reported expired or removed.
C22_ElapsedNeverUnderflows ==
  [][CallStep /\ engine = "sled" /\ last'.op = "get" /\ last'.fault = "none" =>
       LET c == last'.col
           k == last'.key IN
         /\ last'.res.kind # "Panic"
         /\ SledHas(sled, c, k) /\ c.ttl >= 0 /\ now - sled[c.name][k].time <= c.ttl =>
              /\ last'.res = RSome(sled[c.name][k].data)
              /\ SledEntries(sled') = SledEntries(sled)]_vars

====
